---- MODULE Spec2Model ----
EXTENDS Integers, Sequences, FiniteSets, TLC

\* Model of src/app.py: the stopwatch / lap timer kept in st.session_state,
\* the section list it produces, the collaborator handlers that sit beside
\* it, and the timeline export (generate_resolve_xml, timecode_to_frames).
\*
\* Times are integers in milliseconds.  time.time() is the variable now; it
\* only moves forward (Tick).  Timer arithmetic and timecode_to_frames are
\* exact on the inputs of the model; format_time carries the binary rounding
\* of Python floats, which reaches its milliseconds field.

VARIABLES
    running,            \* st.session_state.running
    start_time,         \* st.session_state.start_time (None when absent)
    elapsed_time,       \* st.session_state.elapsed_time
    laps,               \* st.session_state.laps
    current_lap_start,  \* st.session_state.current_lap_start
    now,                \* time.time()
    audio_data,         \* st.session_state.audio_data
    transcription,      \* st.session_state.transcription
    script,             \* st.session_state.script
    generated_audio,    \* st.session_state.generated_audio
    music_request,      \* st.session_state.music_request
    sfx_requests,       \* st.session_state.sfx_requests
    fps,                \* the frame rate chosen in the export tab
    xml_content,        \* the document generate_resolve_xml returned
    laps_in,            \* the list passed to generate_resolve_xml
    seconds_in,         \* argument of the last timecode_to_frames or format_time call
    frames_out,         \* result of the last timecode_to_frames call
    time_text,          \* result of the last format_time call
    last_op,            \* the button of the script run that ran last
    outcome,            \* "ok", "error" (a message was shown) or "ignored" (button absent or disabled)
    lap_run,            \* Stop Laps in a row since the list was last empty (-1: broken)
    created,            \* sections created by Stop Lap since session start or the last reset
    started             \* whether Start has acted since session start or the last reset

timer == <<running, start_time, elapsed_time, current_lap_start>>
collab == <<audio_data, transcription, script, generated_audio, music_request,
            sfx_requests>>
export == <<fps, xml_content, laps_in, seconds_in, frames_out, time_text>>
trace == <<last_op, outcome, lap_run, created, started>>
vars == <<running, start_time, elapsed_time, laps, current_lap_start, now,
          audio_data, transcription, script, generated_audio, music_request,
          sfx_requests, fps, xml_content, laps_in, seconds_in, frames_out,
          time_text, last_op, outcome, lap_run, created, started>>

-----------------------------------------------------------------------------
\* Bounds of the model

\* last clock reading of a run of Spec, and the longest section list
MaxNow == 3
MaxLaps == 3
\* most sections created between two resets
MaxCreated == MaxLaps + 1
\* the same for SpecSession, where the collaborator handlers run as well;
\* SessionMaxLaps also bounds the sections created between two resets
SessionMaxNow == 2
SessionMaxLaps == 1
\* longest section list handed to the exporter in SpecExport
MaxExportLen == 2
\* half-width of the windows of inputs tried on timecode_to_frames
FrameWindow == 12
\* half-width of the windows of inputs tried on format_time
FormatWindow == 20

\* Python's None for start_time; every clock reading is positive
None == -1
\* first reading of time.time(): a positive instant
Epoch == 1
\* milliseconds per second: the unit of every time value of the model
Second == 1000

\* options of the Frame Rate selectbox, and its default (index=2)
FpsOptions == {24, 25, 30, 60}
DefaultFps == 30

\* texts typed into a Section Title input
RenameTexts == {"Intro"}

-----------------------------------------------------------------------------
\* Helpers

\* truthiness of st.session_state.start_time in "running and start_time"
Truthy(t) == t # None /\ t # 0

\* f"Section {n}"
DefaultTitle(n) == "Section " \o ToString(n)

\* the value without the accumulated elapsed_time while running
current_elapsed_segment ==
    IF running /\ Truthy(start_time)
    THEN now - start_time
    ELSE elapsed_time

\* the value computed at the top of the timer tab
current_elapsed ==
    IF running /\ Truthy(start_time)
    THEN elapsed_time + (now - start_time)
    ELSE elapsed_time

\* a Start button drawn in every state
StartRenderedAlways == TRUE

\* "if not st.session_state.running": the Start button is drawn, else Pause
StartRendered == ~running

\* "=" written for "+=": the earlier run segments are dropped
paused_elapsed_assign == now - start_time

\* st.session_state.elapsed_time += time.time() - st.session_state.start_time
paused_elapsed == elapsed_time + (now - start_time)

\* the disabled= argument read as "not (running and elapsed_time == 0)"
StopLapDisabledNotOfAnd == ~(running /\ elapsed_time = 0)

\* the disabled= argument of the Stop Lap button
StopLapDisabled == (~running) /\ elapsed_time = 0

\* the dict with the subtraction left out of 'duration'
NewLapNoSubtract(lap_end_time) ==
    [start_time |-> current_lap_start,
     end_time   |-> lap_end_time,
     duration   |-> lap_end_time,
     title      |-> DefaultTitle(Len(laps) + 1)]

\* the dict appended by Stop Lap
NewLap(lap_end_time) ==
    [start_time |-> current_lap_start,
     end_time   |-> lap_end_time,
     duration   |-> lap_end_time - current_lap_start,
     title      |-> DefaultTitle(Len(laps) + 1)]

\* current_lap_start not carried forward
NextLapStartStale(lap_end_time) == current_lap_start

\* st.session_state.current_lap_start = lap_end_time
NextLapStart(lap_end_time) == lap_end_time

\* list.pop() without the index: the last record goes
PopLast(s, i) == [j \in 1..(Len(s) - 1) |-> s[j]]

\* list.pop(i), i 1-based here
Pop(s, i) == [j \in 1..(Len(s) - 1) |-> IF j < i THEN s[j] ELSE s[j + 1]]

-----------------------------------------------------------------------------
\* Session state initialisation

TimerInit ==
    /\ running = FALSE
    /\ start_time = None
    /\ elapsed_time = 0
    /\ laps = <<>>
    /\ current_lap_start = 0

\* None and "" are the empty tuple, a stored value v is <<v>>
CollabInit ==
    /\ audio_data = <<>>
    /\ transcription = ""
    /\ script = <<>>
    /\ generated_audio = <<>>
    /\ music_request = ""
    /\ sfx_requests = <<>>

ExportInit ==
    /\ fps = DefaultFps
    /\ xml_content = <<>>
    /\ laps_in = <<>>
    /\ seconds_in = 0
    /\ frames_out = <<>>
    /\ time_text = <<>>

TraceInit ==
    /\ last_op = "init"
    /\ outcome = "ok"
    /\ lap_run = 0
    /\ created = 0
    /\ started = FALSE

Init ==
    /\ TimerInit
    /\ CollabInit
    /\ ExportInit
    /\ TraceInit
    /\ now = Epoch

-----------------------------------------------------------------------------
\* Timer / lap engine

\* wall-clock time passes between script runs
Tick ==
    /\ now < MaxNow
    /\ now' = now + 1
    /\ UNCHANGED <<timer, laps, collab, export, trace>>

\* The Start button exists only while not running
Start ==
    /\ last_op' = "start"
    /\ IF StartRendered
       THEN /\ outcome' = "ok"
            /\ running' = TRUE
            /\ start_time' = now
            /\ started' = TRUE
            /\ UNCHANGED <<elapsed_time, laps, current_lap_start, now, lap_run>>
       ELSE /\ outcome' = "ignored"
            /\ UNCHANGED <<timer, laps, now, lap_run, started>>
    /\ UNCHANGED <<collab, export, created>>

\* The Pause button exists only while running
Pause ==
    /\ last_op' = "pause"
    /\ IF running
       THEN /\ outcome' = "ok"
            /\ running' = FALSE
            /\ elapsed_time' = paused_elapsed
            /\ start_time' = None
            /\ lap_run' = IF laps = <<>> THEN 0 ELSE -1
            /\ UNCHANGED <<laps, current_lap_start, now>>
       ELSE /\ outcome' = "ignored"
            /\ UNCHANGED <<timer, laps, now, lap_run>>
    /\ UNCHANGED <<collab, export, created, started>>

StopLap ==
    /\ last_op' = "stop_lap"
    /\ IF ~StopLapDisabled
       THEN LET lap_end_time == current_elapsed IN
            /\ Len(laps) < MaxLaps
            /\ created < MaxCreated
            /\ outcome' = "ok"
            /\ laps' = Append(laps, NewLap(lap_end_time))
            /\ current_lap_start' = NextLapStart(lap_end_time)
            /\ lap_run' = IF lap_run >= 0 THEN lap_run + 1 ELSE lap_run
            /\ created' = created + 1
            /\ UNCHANGED <<running, start_time, elapsed_time, now>>
       ELSE /\ outcome' = "ignored"
            /\ UNCHANGED <<timer, laps, now, lap_run, created>>
    /\ UNCHANGED <<collab, export, started>>

\* Reset All that forgets current_lap_start
ResetKeepsLapStart ==
    /\ last_op' = "reset"
    /\ outcome' = "ok"
    /\ running' = FALSE
    /\ start_time' = None
    /\ elapsed_time' = 0
    /\ laps' = <<>>
    /\ lap_run' = 0
    /\ created' = 0
    /\ started' = FALSE
    /\ UNCHANGED <<current_lap_start, now, collab, export>>

Reset ==
    /\ last_op' = "reset"
    /\ outcome' = "ok"
    /\ running' = FALSE
    /\ start_time' = None
    /\ elapsed_time' = 0
    /\ laps' = <<>>
    /\ current_lap_start' = 0
    /\ lap_run' = 0
    /\ created' = 0
    /\ started' = FALSE
    /\ UNCHANGED <<now, collab, export>>

Rename(i, text) ==
    /\ i \in 1..Len(laps)
    /\ last_op' = "rename"
    /\ outcome' = "ok"
    /\ laps' = [laps EXCEPT ![i].title = text]
    /\ lap_run' = -1
    /\ UNCHANGED <<timer, now, collab, export, created, started>>

Delete(i) ==
    /\ i \in 1..Len(laps)
    /\ last_op' = "delete"
    /\ outcome' = "ok"
    /\ laps' = Pop(laps, i)
    /\ lap_run' = IF laps' = <<>> THEN 0 ELSE -1
    /\ UNCHANGED <<timer, now, collab, export, created, started>>

TimerNext ==
    \/ Tick
    \/ Start
    \/ Pause
    \/ StopLap
    \/ Reset
    \/ \E i \in 1..MaxLaps, text \in RenameTexts : Rename(i, text)
    \/ \E i \in 1..MaxLaps : Delete(i)

Next == TimerNext

Spec == Init /\ [][Next]_vars

-----------------------------------------------------------------------------
\* Properties of the timer / lap engine

\* C1: a Pause that acts (the timer is running) leaves the value of
\* CurrentElapsed() as it was at the instant of the Pause: no time is lost
\* or added, whatever starts, pauses and clock ticks came before.
C1_PauseKeepsElapsed ==
    [][(running /\ Pause) => current_elapsed' = current_elapsed]_vars

\* a Pause has acted on a timer that had already accumulated an earlier run
\* segment and was then running for some time
C1_Witness ==
    /\ last_op = "pause"
    /\ outcome = "ok"
    /\ ~running
    /\ elapsed_time >= 2
    /\ Len(laps) = 1
    /\ laps[1].end_time < elapsed_time

\* C2: after n Stop Laps in a row from an empty list (no Pause, Rename,
\* Delete in between; the clock may tick) the list has exactly n sections and
\* each section ends where the next one starts.
C2_ConsecutiveLapsContiguous ==
    lap_run >= 0 =>
        /\ Len(laps) = lap_run
        /\ \A i \in 1..(Len(laps) - 1) : laps[i].end_time = laps[i + 1].start_time

\* three Stop Laps in a row with time passing between them
C2_Witness ==
    /\ lap_run = 3
    /\ Len(laps) = 3
    /\ laps[1].end_time < laps[2].end_time
    /\ laps[2].end_time < laps[3].end_time

\* C3: every section in the list has duration = end_time - start_time and
\* end_time >= start_time, in every reachable state.
C3_DurationInvariant ==
    \A i \in 1..Len(laps) :
        /\ laps[i].duration = laps[i].end_time - laps[i].start_time
        /\ laps[i].end_time >= laps[i].start_time

\* a section of positive length that started after 0 survives a Delete
C3_Witness ==
    /\ last_op = "delete"
    /\ Len(laps) >= 1
    /\ laps[1].start_time > 0
    /\ laps[1].duration > 0

\* C4: a Start while the timer is running and a Pause while it is not
\* running leave running, start_time, elapsed_time, current_lap_start and
\* the section list as they were.
C4_InvalidTransitionNoop ==
    [][((running /\ Start) \/ (~running /\ Pause)) => UNCHANGED <<timer, laps>>]_vars

\* a Start was attempted on a running timer that had time on it
C4_Witness ==
    /\ last_op = "start"
    /\ outcome = "ignored"
    /\ running
    /\ now > start_time
    /\ Len(laps) >= 1

\* C5: Reset can be taken in every state, and it leaves the timer state as
\* at session start whatever the state before.
C5_ResetRestoresInitial ==
    [][(ENABLED Reset) /\ (Reset => TimerInit')]_vars

\* a Reset has acted some time into the session
C5_Witness ==
    /\ last_op = "reset"
    /\ now >= 3
    /\ TimerInit

\* C6: Rename changes the title of section i and nothing else; Delete removes
\* the record at index i and keeps the others in order and untouched; neither
\* changes the timer state.
C6_RenameDeleteFrame ==
    [][ /\ \A i \in 1..Len(laps), text \in RenameTexts :
             Rename(i, text) =>
                /\ Len(laps') = Len(laps)
                /\ laps'[i].title = text
                /\ \A j \in 1..Len(laps) :
                      /\ laps'[j].start_time = laps[j].start_time
                      /\ laps'[j].end_time = laps[j].end_time
                      /\ laps'[j].duration = laps[j].duration
                      /\ j # i => laps'[j].title = laps[j].title
                /\ UNCHANGED timer
        /\ \A i \in 1..Len(laps) :
             Delete(i) =>
                /\ Len(laps') = Len(laps) - 1
                /\ \A j \in 1..(i - 1) : laps'[j] = laps[j]
                /\ \A j \in i..(Len(laps) - 1) : laps'[j] = laps[j + 1]
                /\ UNCHANGED timer
      ]_vars

\* the middle section of three was deleted, which leaves a gap
C6_Witness ==
    /\ last_op = "delete"
    /\ Len(laps) = 2
    /\ laps[1].end_time < laps[2].start_time

\* a Stop Lap click whose handler ran and appended a section
StopLapActs ==
    /\ last_op' = "stop_lap"
    /\ outcome' = "ok"
    /\ Len(laps') = Len(laps) + 1
    /\ StopLap

\* C12: every section created by Stop Lap gets the title "Section n", n its
\* 1-based creation order since the last reset, whatever Deletes came between.
C12_TitleIsCreationOrder ==
    [][StopLapActs => laps'[Len(laps')].title = DefaultTitle(created')]_vars

\* C13 as claimed: Stop Lap is disabled exactly when the timer has never been
\* started since session start or the last reset and elapsed time is zero, so
\* it is enabled in every state where the timer has been started.
C13_DisabledIffNeverStarted ==
    StopLapDisabled <=> (~started /\ elapsed_time = 0)

\* C13 as amended: Stop Lap is disabled exactly when the timer is not running
\* and elapsed time is zero.  That is so whenever the timer has never been
\* started since session start or the last reset, and a click is then ignored;
\* in every state where the timer runs or elapsed time is positive the click
\* acts.
C13_DisabledIffStoppedAtZero ==
    [][ /\ ~started => StopLapDisabled
        /\ (last_op' = "stop_lap" /\ StopLap)
              => (outcome' = "ignored" <=> (~running /\ elapsed_time = 0))
      ]_vars

\* a Stop Lap click was ignored on a timer that had been started and paused
\* at the same clock reading
C13_Witness ==
    /\ last_op = "stop_lap"
    /\ outcome = "ignored"
    /\ started
    /\ ~running
    /\ elapsed_time = 0

\* C15: in every reachable state the sections are in time order and do not
\* overlap, the last one ends no later than current_lap_start, and
\* current_lap_start is no later than CurrentElapsed().
C15_LapsOrdered ==
    /\ \A i \in 1..(Len(laps) - 1) : laps[i].end_time <= laps[i + 1].start_time
    /\ laps # <<>> => laps[Len(laps)].end_time <= current_lap_start
    /\ current_lap_start <= current_elapsed

\* the last of two sections was deleted after a pause and a resume: the one
\* left ends before current_lap_start
C15_Witness ==
    /\ last_op = "delete"
    /\ Len(laps) = 1
    /\ laps[1].duration > 0
    /\ laps[1].end_time < current_lap_start
    /\ running
    /\ elapsed_time > 0

-----------------------------------------------------------------------------
\* Collaborators: transcription, script, voice, sound effects, music request

\* texts typed into the transcription text area
EditTexts == {"edited notes"}

\* what transcribe_audio returns: None on an exception, else the text
TranscribeResults == {<<>>, <<"notes">>}

\* the parsed JSON a successful generate_audio_tour_script returns
ScriptDoc ==
    [sections |->
        << [section_number |-> 1, title |-> "Entrance", script |-> "Welcome.",
            sound_effects |-> <<"footsteps">>],
           [section_number |-> 2, title |-> "Hall", script |-> "The hall.",
            sound_effects |-> <<"footsteps">>] >>,
     overall_music_description |-> "calm, ambient"]

\* what generate_audio_tour_script returns: None on an exception, else the dict
ScriptResults == {<<>>, <<ScriptDoc>>}

\* the section list, were the script generator to round the durations it
\* puts in the prompt to whole seconds in place
LapsAfterScriptWholeSeconds(l, result) ==
    [i \in 1..Len(l) |->
        [l[i] EXCEPT !.duration = (l[i].duration \div Second) * Second]]

\* the section list after generate_audio_tour_script read it: as it was
LapsAfterScript(l, result) == l

\* all_audio: one entry per section whose generate_voice_audio call succeeded
RECURSIVE all_audio(_, _, _)
all_audio(sections, ok, k) ==
    IF k > Len(sections) THEN <<>>
    ELSE (IF k \in ok
          THEN << [section |-> sections[k].section_number,
                   title   |-> sections[k].title,
                   audio   |-> "mp3"] >>
          ELSE <<>>) \o all_audio(sections, ok, k + 1)

\* every sound effect of every section, in order
RECURSIVE AllEffects(_, _)
AllEffects(sections, k) ==
    IF k > Len(sections) THEN <<>>
    ELSE sections[k].sound_effects \o AllEffects(sections, k + 1)

\* "if sfx not in sfx_list: sfx_list.append(sfx)"
RECURSIVE Dedupe(_, _, _)
Dedupe(effects, k, acc) ==
    IF k > Len(effects) THEN acc
    ELSE Dedupe(effects, k + 1,
                IF \E j \in 1..Len(acc) : acc[j] = effects[k]
                THEN acc ELSE Append(acc, effects[k]))

sfx_list(doc) == Dedupe(AllEffects(doc.sections, 1), 1, <<>>)

\* generated_sfx: one entry per selected effect whose generate_sound_effect
\* call succeeded
RECURSIVE generated_sfx(_, _, _, _)
generated_sfx(effects, selected, ok, k) ==
    IF k > Len(effects) THEN <<>>
    ELSE (IF k \in selected /\ k \in ok
          THEN << [name |-> effects[k], audio |-> "mp3"] >>
          ELSE <<>>) \o generated_sfx(effects, selected, ok, k + 1)

\* the formatted request text
create_suno_music_request(description) ==
    "SUNO AI MUSIC GENERATION REQUEST " \o description

\* an audio file is recorded or uploaded
UploadAudio ==
    /\ audio_data' = <<"wav">>
    /\ last_op' = "upload"
    /\ outcome' = "ok"
    /\ UNCHANGED <<timer, laps, now, transcription, script, generated_audio,
                   music_request, sfx_requests, export, lap_run, created, started>>

\* Transcribe Audio; key: an OpenAI key was entered
Transcribe(key, result) ==
    /\ audio_data # <<>>
    /\ last_op' = "transcribe"
    /\ IF key /\ result # <<>>
       THEN transcription' = result[1] /\ outcome' = "ok"
       ELSE UNCHANGED transcription /\ outcome' = "error"
    /\ UNCHANGED <<timer, laps, now, audio_data, script, generated_audio,
                   music_request, sfx_requests, export, lap_run, created, started>>

\* the transcription text area: shown once there is a transcription, and
\* its content is stored back on every script run
EditTranscription(text) ==
    /\ transcription # ""
    /\ transcription' = text
    /\ last_op' = "edit"
    /\ outcome' = "ok"
    /\ UNCHANGED <<timer, laps, now, audio_data, script, generated_audio,
                   music_request, sfx_requests, export, lap_run, created, started>>

\* Generate Script with AI; key: the key of the chosen LLM was entered
GenerateScript(key, result) ==
    /\ transcription # ""
    /\ laps # <<>>
    /\ last_op' = "script"
    /\ IF key /\ result # <<>>
       THEN script' = result /\ outcome' = "ok"
       ELSE UNCHANGED script /\ outcome' = "error"
    /\ laps' = LapsAfterScript(laps, result)
    /\ UNCHANGED <<timer, now, audio_data, transcription, generated_audio,
                   music_request, sfx_requests, export, lap_run, created, started>>

\* Generate Complete Voice Narration; ok: the sections whose call succeeds
GenerateVoice(key, ok) ==
    /\ script # <<>>
    /\ last_op' = "voice"
    /\ IF key
       THEN /\ generated_audio' = <<all_audio(script[1].sections, ok, 1)>>
            /\ outcome' = IF ok = 1..Len(script[1].sections) THEN "ok" ELSE "error"
       ELSE UNCHANGED generated_audio /\ outcome' = "error"
    /\ UNCHANGED <<timer, laps, now, audio_data, transcription, script,
                   music_request, sfx_requests, export, lap_run, created, started>>

\* Generate Selected Sound Effects; selected: the multiselect, ok: the
\* selected effects whose call succeeds
GenerateSfx(key, selected, ok) ==
    /\ ok \subseteq selected
    /\ script # <<>>
    /\ sfx_list(script[1]) # <<>>
    /\ last_op' = "sfx"
    /\ IF key
       THEN /\ sfx_requests' = generated_sfx(sfx_list(script[1]), selected, ok, 1)
            /\ outcome' = IF ok = selected THEN "ok" ELSE "error"
       ELSE UNCHANGED sfx_requests /\ outcome' = "error"
    /\ UNCHANGED <<timer, laps, now, audio_data, transcription, script,
                   generated_audio, music_request, export, lap_run, created, started>>

\* Create Suno AI Music Request
CreateMusicRequest ==
    /\ script # <<>>
    /\ "overall_music_description" \in DOMAIN script[1]
    /\ last_op' = "music"
    /\ outcome' = "ok"
    /\ music_request' = create_suno_music_request(script[1].overall_music_description)
    /\ UNCHANGED <<timer, laps, now, audio_data, transcription, script,
                   generated_audio, sfx_requests, export, lap_run, created, started>>

\* indices of the sections and of the sound effects of ScriptDoc
SectionIdx == 1..Len(ScriptDoc.sections)
EffectIdx == 1..Len(sfx_list(ScriptDoc))

\* the buttons of the collaborator handlers
CollabButtons == {"transcribe", "script", "voice", "sfx", "music"}

CollabOp ==
    \/ Transcribe(FALSE, <<>>)
    \/ \E result \in TranscribeResults : Transcribe(TRUE, result)
    \/ GenerateScript(FALSE, <<>>)
    \/ \E result \in ScriptResults : GenerateScript(TRUE, result)
    \/ GenerateVoice(FALSE, {})
    \/ \E ok \in SUBSET SectionIdx : GenerateVoice(TRUE, ok)
    \/ GenerateSfx(FALSE, {}, {})
    \/ \E selected \in SUBSET EffectIdx : \E ok \in SUBSET selected :
          GenerateSfx(TRUE, selected, ok)
    \/ CreateMusicRequest

\* the whole session: timer, sections and collaborators
SessionNext ==
    \/ now < SessionMaxNow /\ Tick
    \/ Start
    \/ Pause
    \/ Len(laps) < SessionMaxLaps /\ created < SessionMaxLaps /\ StopLap
    \/ Reset
    \/ \E i \in 1..MaxLaps, text \in RenameTexts : Rename(i, text)
    \/ \E i \in 1..MaxLaps : Delete(i)
    \/ UploadAudio
    \/ \E text \in EditTexts : EditTranscription(text)
    \/ Transcribe(FALSE, <<>>)
    \/ \E result \in TranscribeResults : Transcribe(TRUE, result)
    \/ GenerateScript(FALSE, <<>>)
    \/ \E result \in ScriptResults : GenerateScript(TRUE, result)
    \/ GenerateVoice(FALSE, {})
    \/ \E ok \in SUBSET SectionIdx : GenerateVoice(TRUE, ok)
    \/ GenerateSfx(FALSE, {}, {})
    \/ \E selected \in SUBSET EffectIdx : \E ok \in SUBSET selected :
          GenerateSfx(TRUE, selected, ok)
    \/ CreateMusicRequest

SpecSession == Init /\ [][SessionNext]_vars

\* a step of a collaborator handler: it names its button and reads no clock
\* (every other handler names its own button, and Tick moves the clock)
CollabStep == last_op' \in CollabButtons /\ now' = now /\ CollabOp

\* the timing of the section list: everything but the titles
LapTimes(l) == [i \in 1..Len(l) |-> <<l[i].start_time, l[i].end_time, l[i].duration>>]

\* C10: no collaborator operation, succeeding or failing, changes running,
\* start_time, elapsed_time, current_lap_start, or the start_time, end_time,
\* duration, number or order of the sections.
C10_CollaboratorsKeepTiming ==
    [][CollabStep => UNCHANGED <<timer, LapTimes(laps)>>]_vars

\* a voice narration run in which one section failed, on a running timer
\* with a recorded section
C10_Witness ==
    /\ last_op = "voice"
    /\ outcome = "error"
    /\ generated_audio # <<>>
    /\ Len(generated_audio[1]) = 1
    /\ running
    /\ Len(laps) = 1
    /\ laps[1].duration > 0

\* C11: when a collaborator call fails (transcription, script generation,
\* speech synthesis for one section, one sound effect), the whole session
\* state after the operation, the stored transcription, script, narration
\* audio and sound effects included, is the state before the operation.
C11_FailureKeepsState ==
    [][(CollabStep /\ outcome' = "error") => UNCHANGED <<timer, laps, collab>>]_vars

-----------------------------------------------------------------------------
\* Timeline exporter

\* round() written for int(): half a frame and more rounds up
timecode_to_frames_round(seconds, rate) == (seconds * rate + Second \div 2) \div Second

\* int(seconds * fps), seconds given in milliseconds
timecode_to_frames(seconds, rate) == (seconds * rate) \div Second

\* laps[0] written for laps[-1]
SequenceDurationFirst(l, rate) ==
    IF l # <<>> THEN timecode_to_frames(l[1].end_time, rate) ELSE 0

\* timecode_to_frames(laps[-1]['end_time'], fps) if laps else 0
SequenceDuration(l, rate) ==
    IF l # <<>> THEN timecode_to_frames(l[Len(l)].end_time, rate) ELSE 0

\* the rate element: timebase and ntsc
Rate(rate) == [timebase |-> rate, ntsc |-> "FALSE"]

\* bits after the leading one in the significand of a Python float
MantissaBits == 52

\* 2^n, and 2^n modulo 1000
RECURSIVE Pow2(_)
Pow2(n) == IF n = 0 THEN 1 ELSE 2 * Pow2(n - 1)

RECURSIVE Pow2Mod(_)
Pow2Mod(n) == IF n = 0 THEN 1 ELSE (2 * Pow2Mod(n - 1)) % Second

\* binary exponent of the positive quotient n / d: the e with
\* 2^e <= n / d < 2^(e + 1)
RECURSIVE Exponent(_, _)
Exponent(n, d) ==
    IF n >= 2 * d THEN Exponent(n, 2 * d) + 1
    ELSE IF n < d THEN Exponent(2 * n, d) - 1
    ELSE 0

\* f"{n:02d}" and f"{n:03d}" for n >= 0
Pad2(n) == IF n < 10 THEN "0" \o ToString(n) ELSE ToString(n)

Pad3(n) ==
    IF n < 10 THEN "00" \o ToString(n)
    ELSE IF n < 100 THEN "0" \o ToString(n)
    ELSE ToString(n)

\* int((seconds % 1) * 1000) for the float nearest to seconds / 1000.
\* With m the decimal milliseconds and s the scale of the float's significand,
\* r is what the float lacks of the decimal value, in units of 2^-s / 1000
\* (0 < r < 500: the float lies below; otherwise on or above).  seconds % 1 is
\* exact; the product with 1000 is rounded to the nearest float, which is m
\* unless the lack exceeds half the float spacing just below m (2^t in the same
\* units); int() then truncates to m - 1.
milliseconds(seconds) ==
    LET m == seconds % Second
        e_x == Exponent(seconds, Second)
        e_m == Exponent(m, 1)
        r == (m * Pow2Mod(MantissaBits - e_x)) % Second
        t == e_m - e_x - 1 - (IF m = Pow2(e_m) THEN 1 ELSE 0)
    IN  IF m = 0 THEN 0
        ELSE IF 0 < r /\ 2 * r < Second /\ (t < 0 \/ r > Pow2(t)) THEN m - 1
        ELSE m

\* format_time(seconds); hours, minutes and secs are whole parts, which the
\* float rounding does not reach
format_time(seconds) ==
    LET hours == seconds \div (3600 * Second)
        minutes == (seconds % (3600 * Second)) \div (60 * Second)
        secs == (seconds % (60 * Second)) \div Second
    IN  Pad2(hours) \o ":" \o Pad2(minutes) \o ":" \o Pad2(secs)
            \o "." \o Pad3(milliseconds(seconds))

\* one clipitem element with its marker; the marker's comment carries the
\* formatted duration
ClipItem(i, lap, rate) ==
    [id       |-> "clipitem-" \o ToString(i),
     name     |-> lap.title,
     duration |-> timecode_to_frames(lap.duration, rate),
     rate     |-> Rate(rate),
     in       |-> 0,
     out      |-> timecode_to_frames(lap.duration, rate),
     start    |-> timecode_to_frames(lap.start_time, rate),
     end      |-> timecode_to_frames(lap.end_time, rate),
     marker   |-> [name    |-> lap.title,
                   comment |-> "Duration: " \o format_time(lap.duration),
                   in      |-> timecode_to_frames(lap.start_time, rate),
                   out     |-> timecode_to_frames(lap.end_time, rate)]]

\* the xmeml document: one sequence, one video track, one clipitem per lap
generate_resolve_xml(l, rate) ==
    [name     |-> "Audio Tour Timeline",
     duration |-> SequenceDuration(l, rate),
     rate     |-> Rate(rate),
     timecode |-> [rate |-> Rate(rate), string |-> "00:00:00:00", frame |-> 0],
     track    |-> [i \in 1..Len(l) |-> ClipItem(i, l[i], rate)]]

\* instants used to build the section lists handed to the exporter
ExportTimes == {0, 1999, 10 * Second, 25 * Second + 500}
ExportTitles == {"Intro", "Hall"}

\* well-formed section records: all four fields, duration = end - start
ExportSections ==
    {[start_time |-> p[1], end_time |-> p[2], duration |-> p[2] - p[1], title |-> t] :
        p \in {q \in ExportTimes \X ExportTimes : q[1] <= q[2]}, t \in ExportTitles}

ExportLists == UNION {[1..n -> ExportSections] : n \in 0..MaxExportLen}

\* the scenario of two sections, 0-10 s and 10-25.5 s
ScenarioLaps ==
    << [start_time |-> 0, end_time |-> 10 * Second,
        duration |-> 10 * Second, title |-> "Intro"],
       [start_time |-> 10 * Second, end_time |-> 25 * Second + 500,
        duration |-> 15 * Second + 500, title |-> "Hall"] >>

ExportSpecInit ==
    /\ TimerInit
    /\ CollabInit
    /\ TraceInit
    /\ now = Epoch
    /\ fps = DefaultFps
    /\ xml_content = <<>>
    /\ laps_in \in ExportLists
    /\ seconds_in = 0
    /\ frames_out = <<>>
    /\ time_text = <<>>

\* a call generate_resolve_xml(laps, fps) with the chosen frame rate
Export(rate) ==
    /\ fps' = rate
    /\ xml_content' = <<generate_resolve_xml(laps_in, rate)>>
    /\ last_op' = "export"
    /\ outcome' = "ok"
    /\ UNCHANGED <<timer, laps, now, collab, laps_in, seconds_in, frames_out,
                   time_text, lap_run, created, started>>

ExportNext == \E rate \in FpsOptions : Export(rate)

SpecExport == ExportSpecInit /\ [][ExportNext]_vars

\* inputs tried on timecode_to_frames: windows around 0 s, 1 s and 2 s
FrameSamples ==
    {s \in 0..(2 * Second + FrameWindow) :
        \E c \in {0, Second, 2 * Second} :
            s >= c - FrameWindow /\ s <= c + FrameWindow}

\* a call timecode_to_frames(seconds, fps)
Convert(seconds, rate) ==
    /\ seconds_in' = seconds
    /\ fps' = rate
    /\ frames_out' = <<timecode_to_frames(seconds, rate)>>
    /\ UNCHANGED <<timer, laps, now, collab, xml_content, laps_in, time_text, trace>>

FramesNext == \E seconds \in FrameSamples, rate \in FpsOptions : Convert(seconds, rate)

SpecFrames == Init /\ [][FramesNext]_vars

\* inputs tried on format_time: windows around 0 s, 2 min 5.678 s and
\* 1 h 2 min 5 s
FormatCentres == {0, 125678, 3725 * Second}

FormatSamples ==
    UNION {(IF c > FormatWindow THEN c - FormatWindow ELSE 0)..(c + FormatWindow) :
              c \in FormatCentres}

\* a call format_time(seconds)
FormatTime(seconds) ==
    /\ seconds_in' = seconds
    /\ time_text' = <<format_time(seconds)>>
    /\ UNCHANGED <<timer, laps, now, collab, fps, xml_content, laps_in, frames_out,
                   trace>>

FormatNext == \E seconds \in FormatSamples : FormatTime(seconds)

SpecFormat == Init /\ [][FormatNext]_vars

-----------------------------------------------------------------------------
\* Properties of the exporter

\* n is the whole number of frames in s milliseconds at the given rate
IsFloor(n, s, rate) == n * Second <= s * rate /\ s * rate < (n + 1) * Second

C8_SequenceShape ==
    xml_content # <<>> =>
        LET doc == xml_content[1] IN
        /\ DOMAIN doc.track = 1..Len(laps_in)
        /\ \A i \in 1..Len(laps_in) :
             /\ doc.track[i].name = laps_in[i].title
             /\ IsFloor(doc.track[i].start, laps_in[i].start_time, fps)
             /\ IsFloor(doc.track[i].end, laps_in[i].end_time, fps)
        /\ laps_in # <<>> => IsFloor(doc.duration, laps_in[Len(laps_in)].end_time, fps)
        /\ laps_in = <<>> => doc.duration = 0 /\ doc.track = <<>>

\* the empty list has been exported
C8_Witness ==
    /\ xml_content # <<>>
    /\ laps_in = <<>>
    /\ last_op = "export"

\* C9: timecode_to_frames returns the floor of seconds * fps, never more, and
\* is monotonic in seconds at a fixed rate; at 30 fps 1.999 s is 59 frames,
\* 2.0 s and 2.001 s are 60 frames.
C9_FramesOk ==
    frames_out # <<>> =>
        /\ IsFloor(frames_out[1], seconds_in, fps)
        /\ (fps = 30 /\ seconds_in = 1999) => frames_out[1] = 59
        /\ (fps = 30 /\ seconds_in = 2 * Second) => frames_out[1] = 60
        /\ (fps = 30 /\ seconds_in = 2 * Second + 1) => frames_out[1] = 60

TruncatedText(k) ==
    Pad2(k \div (3600 * Second)) \o ":" \o Pad2((k % (3600 * Second)) \div (60 * Second))
        \o ":" \o Pad2((k % (60 * Second)) \div Second) \o "." \o Pad3(k % Second)

\* C14: format_time renders a non-negative time as HH:MM:SS.mmm, each
\* component truncated and zero-padded (2 digits for hours, minutes and
\* seconds, 3 for milliseconds), on every input that is a whole number of
\* milliseconds; 125.678 s renders as "00:02:05.678".
C14_FormatTruncates ==
    time_text # <<>> =>
        /\ time_text[1] = TruncatedText(seconds_in)
        /\ seconds_in = 125678 => time_text[1] = "00:02:05.678"

====
